---- MODULE Spec2Model ----
(***************************************************************************)
(* Model of the seller-apis synchronisation scripts: seller.py (the        *)
(* "seller" channel) and market.py (the "market" channel, FBS and DBS      *)
(* campaigns).                                                             *)
(*                                                                         *)
(* Python text is modelled as a sequence of one-character strings, so that *)
(* str(), int(), str.split and re.sub are computed character by character. *)
(* A value read from the feed is a raw cell: either text or an integer     *)
(* (pandas yields both), tagged so that str() and int() are real           *)
(* conversions.  A call that may raise returns [status, value]: status is  *)
(* "ok" or the name of the Python exception.                               *)
(***************************************************************************)
EXTENDS Integers, Sequences, FiniteSets, TLC

VARIABLES
    prog,            \* which script runs: "seller" or "market"
    pc,              \* position of the running script / of the called function
    campaign,        \* channel being processed: "seller", "FBS", "DBS"
    remote,          \* the offers registered on each channel (external state)
    download,        \* what download_stock() will return (external state)
    watch_remnants,  \* main's local: the feed
    offer_ids,       \* the caller's offer-identifier list (a mutable Python list)
    fetched_ids,     \* history: the list as get_offer_ids returned it / as passed in
    page,            \* get_offer_ids: last_id / page token of the next request
    product_list,    \* get_offer_ids: items accumulated so far
    stocks,          \* result of create_stocks: [status, value]
    prices,          \* result of create_prices: [status, value]
    lst,             \* divide: the list being split
    n,               \* divide: the chunk size
    chunks,          \* list(divide(...)): chunks still to submit / result of divide
    calls,           \* history: every external call issued, in order
    reports,         \* history: every message printed by an except clause
    unawaited        \* coroutine objects created and never awaited

vars == <<prog, pc, campaign, remote, download, watch_remnants, offer_ids,
          fetched_ids, page, product_list, stocks, prices, lst, n, chunks,
          calls, reports, unawaited>>

(***************************************************************************)
(* Bounds of the model.                                                    *)
(***************************************************************************)
MaxFeed == 2        \* longest feed in the reconciliation specification
MaxOffers == 2      \* longest offer-identifier list passed to create_stocks/create_prices
MaxQtyLen == 3      \* longest quantity text enumerated exhaustively
MaxPriceLen == 4    \* longest price text enumerated exhaustively
MaxLst == 4         \* longest list handed to divide
MaxChunk == 3       \* largest |n| handed to divide
MaxCatalog == 3     \* most offers registered on one channel in a run of main

\* The request and batch limits of the scripts, scaled down so that a catalog
\* of MaxCatalog offers spans several pages and several chunks.
SELLER_LIST_LIMIT == 2      \* seller.get_product_list "limit": 1000
MARKET_LIST_LIMIT == 2      \* market.get_product_list "limit": 200
SELLER_STOCKS_CHUNK == 1    \* seller.main divide(stocks, 100)
SELLER_PRICES_CHUNK == 2    \* seller.main divide(prices, 900)
MARKET_STOCKS_CHUNK == 2    \* market.main divide(stocks, 2000)
MARKET_PRICES_CHUNK == 1    \* market.upload_prices divide(prices, 500)

(***************************************************************************)
(* Python values and conversions.                                          *)
(***************************************************************************)
Digits == <<"0", "1", "2", "3", "4", "5", "6", "7", "8", "9">>

IsDigit(c) == \E i \in 1..10 : Digits[i] = c

DigitVal(c) == (CHOOSE i \in 1..10 : Digits[i] = c) - 1

\* a text cell and an integer cell of the feed
Text(s) == [tag |-> "str", n |-> 0, s |-> s]
Num(k) == [tag |-> "int", n |-> k, s |-> <<>>]

RECURSIVE NatToStr(_)
NatToStr(k) ==
    IF k < 10 THEN <<Digits[k + 1]>>
    ELSE Append(NatToStr(k \div 10), Digits[(k % 10) + 1])

\* str(x)
PyStr(v) ==
    IF v.tag = "str" THEN v.s
    ELSE IF v.n < 0 THEN <<"-">> \o NatToStr(-v.n)
    ELSE NatToStr(v.n)

RECURSIVE SelectDigits(_)
SelectDigits(s) ==
    IF s = <<>> THEN <<>>
    ELSE IF IsDigit(Head(s)) THEN <<Head(s)>> \o SelectDigits(Tail(s))
    ELSE SelectDigits(Tail(s))

RECURSIVE DecVal(_)
DecVal(s) ==
    IF s = <<>> THEN 0
    ELSE 10 * DecVal(SubSeq(s, 1, Len(s) - 1)) + DigitVal(s[Len(s)])

RECURSIVE LStrip(_)
LStrip(s) == IF s # <<>> /\ Head(s) = " " THEN LStrip(Tail(s)) ELSE s

RECURSIVE RStrip(_)
RStrip(s) ==
    IF s # <<>> /\ s[Len(s)] = " " THEN RStrip(SubSeq(s, 1, Len(s) - 1)) ELSE s

\* int(x) for a str x: surrounding whitespace, an optional sign, then digits
\* with single underscores allowed between them; anything else is ValueError
IntOfStr(s) ==
    LET t == RStrip(LStrip(s))
        signed == t # <<>> /\ t[1] \in {"+", "-"}
        body == IF signed THEN Tail(t) ELSE t
        valid == /\ body # <<>>
                 /\ IsDigit(body[1])
                 /\ IsDigit(body[Len(body)])
                 /\ \A i \in 1..Len(body) : IsDigit(body[i]) \/ body[i] = "_"
                 /\ \A i \in 1..(Len(body) - 1) : ~(body[i] = "_" /\ body[i + 1] = "_")
        mag == DecVal(SelectDigits(body))
    IN  IF ~valid THEN [status |-> "ValueError", value |-> 0]
        ELSE [status |-> "ok", value |-> IF signed /\ t[1] = "-" THEN -mag ELSE mag]

\* int(x)
PyInt(v) == IF v.tag = "int" THEN [status |-> "ok", value |-> v.n] ELSE IntOfStr(v.s)

\* x in list
Contains(l, x) == \E i \in 1..Len(l) : l[i] = x

\* list.remove left out: the list is returned as it was
Remove_nothing(l, x) == l

\* list.remove(x): drops the first occurrence
Remove(l, x) ==
    LET i == CHOOSE j \in 1..Len(l) : l[j] = x /\ \A k \in 1..(j - 1) : l[k] # x
    IN  SubSeq(l, 1, i - 1) \o SubSeq(l, i + 1, Len(l))

(***************************************************************************)
(* seller.py / market.py: the reconciliation functions.  A feed row        *)
(* ("watch") is [Kod, Kolichestvo, Tsena], the cells of the columns        *)
(* "Код", "Количество", "Цена".                                            *)
(***************************************************************************)

\* the quantity rule without the "1" sentinel: "1" read as the literal 1
stock_of_count_literal(watch) ==
    LET count == PyStr(watch.Kolichestvo)
    IN  IF count = <<">", "1", "0">> THEN [status |-> "ok", value |-> 100]
        ELSE PyInt(watch.Kolichestvo)

\* the quantity rule inside create_stocks: ">10" is 100, "1" is 0, else int()
stock_of_count(watch) ==
    LET count == PyStr(watch.Kolichestvo)
    IN  IF count = <<">", "1", "0">> THEN [status |-> "ok", value |-> 100]
        ELSE IF count = <<"1">> THEN [status |-> "ok", value |-> 0]
        ELSE PyInt(watch.Kolichestvo)

\* seller.create_stocks, first loop, from row i on; ids is the list as mutated so far
RECURSIVE seller_stocks_loop(_, _, _, _)
seller_stocks_loop(feed, i, ids, acc) ==
    IF i > Len(feed) THEN [status |-> "ok", value |-> acc, offer_ids |-> ids]
    ELSE IF ~Contains(ids, PyStr(feed[i].Kod))
         THEN seller_stocks_loop(feed, i + 1, ids, acc)
    ELSE LET stock == stock_of_count(feed[i])
         IN  IF stock.status # "ok"
             THEN [status |-> stock.status, value |-> <<>>, offer_ids |-> ids]
             ELSE seller_stocks_loop(
                      feed, i + 1, Remove(ids, PyStr(feed[i].Kod)),
                      Append(acc, [offer_id |-> PyStr(feed[i].Kod),
                                   stock |-> stock.value]))

\* seller.create_stocks: value is the returned list, offer_ids the argument
\* list as the call leaves it
seller_create_stocks(feed, ids) ==
    LET matched == seller_stocks_loop(feed, 1, ids, <<>>)
    IN  IF matched.status # "ok" THEN matched
        ELSE [matched EXCEPT !.value =
                 matched.value \o
                 [k \in 1..Len(matched.offer_ids) |->
                     [offer_id |-> matched.offer_ids[k], stock |-> 0]]]

\* one element of the list market.create_stocks builds
market_sku(sku, warehouse_id, count) ==
    [sku |-> sku, warehouseId |-> warehouse_id,
     items |-> <<[count |-> count, type |-> "FIT", updatedAt |-> "date"]>>]

\* market.create_stocks, first loop
RECURSIVE market_stocks_loop(_, _, _, _, _)
market_stocks_loop(feed, i, ids, warehouse_id, acc) ==
    IF i > Len(feed) THEN [status |-> "ok", value |-> acc, offer_ids |-> ids]
    ELSE IF ~Contains(ids, PyStr(feed[i].Kod))
         THEN market_stocks_loop(feed, i + 1, ids, warehouse_id, acc)
    ELSE LET stock == stock_of_count(feed[i])
         IN  IF stock.status # "ok"
             THEN [status |-> stock.status, value |-> <<>>, offer_ids |-> ids]
             ELSE market_stocks_loop(
                      feed, i + 1, Remove(ids, PyStr(feed[i].Kod)), warehouse_id,
                      Append(acc, market_sku(PyStr(feed[i].Kod), warehouse_id,
                                             stock.value)))

\* market.create_stocks
market_create_stocks(feed, ids, warehouse_id) ==
    LET matched == market_stocks_loop(feed, 1, ids, warehouse_id, <<>>)
    IN  IF matched.status # "ok" THEN matched
        ELSE [matched EXCEPT !.value =
                 matched.value \o
                 [k \in 1..Len(matched.offer_ids) |->
                     market_sku(matched.offer_ids[k], warehouse_id, 0)]]

\* price.split(".")[0]
RECURSIVE BeforeDot(_)
BeforeDot(s) ==
    IF s = <<>> \/ Head(s) = "." THEN <<>>
    ELSE <<Head(s)>> \o BeforeDot(Tail(s))

\* seller.price_conversion: re.sub("[^0-9]", "", price.split(".")[0]);
\* a cell that is not text has no split
price_conversion(price) ==
    IF price.tag # "str" THEN [status |-> "AttributeError", value |-> <<>>]
    ELSE [status |-> "ok", value |-> SelectDigits(BeforeDot(price.s))]

\* seller.create_prices
RECURSIVE seller_prices_loop(_, _, _, _)
seller_prices_loop(feed, i, ids, acc) ==
    IF i > Len(feed) THEN [status |-> "ok", value |-> acc]
    ELSE IF ~Contains(ids, PyStr(feed[i].Kod))
         THEN seller_prices_loop(feed, i + 1, ids, acc)
    ELSE LET p == price_conversion(feed[i].Tsena)
         IN  IF p.status # "ok" THEN [status |-> p.status, value |-> <<>>]
             ELSE seller_prices_loop(
                      feed, i + 1, ids,
                      Append(acc, [auto_action_enabled |-> "UNKNOWN",
                                   currency_code |-> "RUB",
                                   offer_id |-> PyStr(feed[i].Kod),
                                   old_price |-> "0",
                                   price |-> p.value]))

\* create_prices that adds a zero-price entry for every listed offer, as
\* create_stocks does for stocks
seller_create_prices_zero_filled(feed, ids) ==
    LET r == seller_prices_loop(feed, 1, ids, <<>>)
    IN  IF r.status # "ok" THEN r
        ELSE [r EXCEPT !.value =
                 r.value \o [k \in 1..Len(ids) |->
                                [auto_action_enabled |-> "UNKNOWN",
                                 currency_code |-> "RUB",
                                 offer_id |-> ids[k],
                                 old_price |-> "0",
                                 price |-> <<"0">>]]]

seller_create_prices(feed, ids) == seller_prices_loop(feed, 1, ids, <<>>)

\* market.create_prices: the price is int(price_conversion(...))
RECURSIVE market_prices_loop(_, _, _, _)
market_prices_loop(feed, i, ids, acc) ==
    IF i > Len(feed) THEN [status |-> "ok", value |-> acc]
    ELSE IF ~Contains(ids, PyStr(feed[i].Kod))
         THEN market_prices_loop(feed, i + 1, ids, acc)
    ELSE LET p == price_conversion(feed[i].Tsena)
             v == IF p.status # "ok" THEN p ELSE IntOfStr(p.value)
         IN  IF v.status # "ok" THEN [status |-> v.status, value |-> <<>>]
             ELSE market_prices_loop(
                      feed, i + 1, ids,
                      Append(acc, [id |-> PyStr(feed[i].Kod),
                                   price |-> [value |-> v.value,
                                              currencyId |-> "RUR"]]))

market_create_prices(feed, ids) == market_prices_loop(feed, 1, ids, <<>>)

(***************************************************************************)
(* seller.divide                                                           *)
(***************************************************************************)

\* a range that includes its stop value
RECURSIVE RangeFrom_inclusive(_, _, _)
RangeFrom_inclusive(i, stop, step) ==
    IF (step > 0 /\ i <= stop) \/ (step < 0 /\ i >= stop)
    THEN <<i>> \o RangeFrom_inclusive(i + step, stop, step)
    ELSE <<>>

\* range(0, stop, step) as a sequence; step = 0 raises ValueError
RECURSIVE RangeFrom(_, _, _)
RangeFrom(i, stop, step) ==
    IF (step > 0 /\ i < stop) \/ (step < 0 /\ i > stop)
    THEN <<i>> \o RangeFrom(i + step, stop, step)
    ELSE <<>>

PyRange(stop, step) ==
    IF step = 0 THEN [status |-> "ValueError", value |-> <<>>]
    ELSE [status |-> "ok", value |-> RangeFrom(0, stop, step)]

\* l[i : j] for 0 <= i and any j (negative j counts from the end)
Slice(l, i, j) ==
    LET hi == IF j < 0 THEN Len(l) + j ELSE IF j > Len(l) THEN Len(l) ELSE j
    IN  IF hi <= i THEN <<>> ELSE SubSeq(l, i + 1, hi)

\* list(divide(l, k)): the chunks the generator yields, or the exception
\* raised when it is first advanced
divide(l, k) ==
    LET r == PyRange(Len(l), k)
    IN  IF r.status # "ok" THEN r
        ELSE [status |-> "ok",
              value |-> [c \in 1..Len(r.value) |->
                            Slice(l, r.value[c], r.value[c] + k)]]

(***************************************************************************)
(* Values shared by the specifications.                                    *)
(***************************************************************************)
SeqsUpTo(S, k) == UNION {[1..m -> S] : m \in 0..k}

NoResult == [status |-> "none", value |-> <<>>]

\* offer codes as the channels list them (always text)
Codes == {<<"1">>, <<"2">>, <<"1", "2">>}

\* the "Код" cells of the feed: text, or a number as the spreadsheet reader yields it
RawCodes == {Text(c) : c \in Codes} \cup {Num(12)}

DefaultQty == Text(<<">", "1", "0">>)
DefaultPrice == Text(<<"5", "'", "9", "9", "0", ".", "0", "0", " ", "r", ".">>)

Row(kod, qty, price) == [Kod |-> kod, Kolichestvo |-> qty, Tsena |-> price]

(***************************************************************************)
(* SpecRecon: one call of create_stocks or create_prices, of seller.py or  *)
(* market.py, on a feed and an offer-identifier list drawn from bounded    *)
(* sets.                                                                   *)
(***************************************************************************)
QtySamples == {Text(<<">", "1", "0">>), Text(<<"1">>), Text(<<"a">>), Num(7)}
PriceSamples == {DefaultPrice, Text(<<"1", "2", ".", "5">>), Text(<<"r", ".">>)}
QtyAlphabet == {">", "1", "0", "7", "a", "-", "_", " "}
PriceAlphabet == {"5", "0", "'", ".", "r"}

StockRows == {Row(k, q, DefaultPrice) : k \in RawCodes, q \in QtySamples}
PriceRows == {Row(k, DefaultQty, p) : k \in RawCodes, p \in PriceSamples}

\* <<function called, feed, offer ids>>
ReconInputs ==
    ({"create_stocks"} \X SeqsUpTo(StockRows, MaxFeed) \X SeqsUpTo(Codes, MaxOffers))
    \cup
    ({"create_prices"} \X SeqsUpTo(PriceRows, MaxFeed) \X SeqsUpTo(Codes, MaxOffers))
    \cup
    ({"create_stocks"}
        \X {<<Row(Text(<<"1">>), Text(q), DefaultPrice)>> :
               q \in SeqsUpTo(QtyAlphabet, MaxQtyLen)}
        \X {<<<<"1">>>>})
    \cup
    ({"create_prices"}
        \X {<<Row(Text(<<"1">>), DefaultQty, Text(p))>> :
               p \in SeqsUpTo(PriceAlphabet, MaxPriceLen)}
        \X {<<<<"1">>>>})

ReconInit ==
    /\ prog \in {"seller", "market"}
    /\ \E in \in ReconInputs :
          /\ pc = in[1]
          /\ watch_remnants = in[2]
          /\ offer_ids = in[3]
          /\ fetched_ids = in[3]
    /\ campaign = prog
    /\ remote = <<>>
    /\ download = <<>>
    /\ page = <<>>
    /\ product_list = <<>>
    /\ stocks = NoResult
    /\ prices = NoResult
    /\ lst = <<>>
    /\ n = 1
    /\ chunks = <<>>
    /\ calls = <<>>
    /\ reports = <<>>
    /\ unawaited = 0

ReconFrame ==
    UNCHANGED <<prog, campaign, remote, download, watch_remnants, fetched_ids,
                page, product_list, lst, n, chunks, calls, reports, unawaited>>

\* stocks = seller.create_stocks(watch_remnants, offer_ids)
SellerCreateStocks ==
    /\ prog = "seller"
    /\ pc = "create_stocks"
    /\ LET r == seller_create_stocks(watch_remnants, offer_ids)
       IN  /\ stocks' = [status |-> r.status, value |-> r.value]
           /\ offer_ids' = r.offer_ids
    /\ pc' = "returned"
    /\ UNCHANGED prices
    /\ ReconFrame

\* stocks = market.create_stocks(watch_remnants, offer_ids, warehouse_id)
MarketCreateStocks ==
    /\ prog = "market"
    /\ pc = "create_stocks"
    /\ LET r == market_create_stocks(watch_remnants, offer_ids, "warehouse")
       IN  /\ stocks' = [status |-> r.status, value |-> r.value]
           /\ offer_ids' = r.offer_ids
    /\ pc' = "returned"
    /\ UNCHANGED prices
    /\ ReconFrame

\* prices = seller.create_prices(watch_remnants, offer_ids)
SellerCreatePrices ==
    /\ prog = "seller"
    /\ pc = "create_prices"
    /\ prices' = seller_create_prices(watch_remnants, offer_ids)
    /\ pc' = "returned"
    /\ UNCHANGED <<stocks, offer_ids>>
    /\ ReconFrame

\* prices = market.create_prices(watch_remnants, offer_ids)
MarketCreatePrices ==
    /\ prog = "market"
    /\ pc = "create_prices"
    /\ prices' = market_create_prices(watch_remnants, offer_ids)
    /\ pc' = "returned"
    /\ UNCHANGED <<stocks, offer_ids>>
    /\ ReconFrame

ReconNext ==
    \/ SellerCreateStocks
    \/ MarketCreateStocks
    \/ SellerCreatePrices
    \/ MarketCreatePrices

SpecRecon == ReconInit /\ [][ReconNext]_vars

(***************************************************************************)
(* Properties of the reconciliation functions (SpecRecon).                 *)
(***************************************************************************)
Count(l, x) == Cardinality({i \in 1..Len(l) : l[i] = x})

NoDup(l) == \A i, j \in 1..Len(l) : l[i] = l[j] => i = j

\* the offer code and the count carried by a stock entry, the offer code of a
\* price entry, in the schema of the script that ran
StockCode(e) == IF prog = "seller" THEN e.offer_id ELSE e.sku
StockCount(e) == IF prog = "seller" THEN e.stock ELSE e.items[1].count
PriceCode(e) == IF prog = "seller" THEN e.offer_id ELSE e.id

FeedCodes == [i \in 1..Len(watch_remnants) |-> PyStr(watch_remnants[i].Kod)]
StockCodes == [k \in 1..Len(stocks.value) |-> StockCode(stocks.value[k])]
PriceCodes == [k \in 1..Len(prices.value) |-> PriceCode(prices.value[k])]

StocksReturned == pc = "returned" /\ stocks # NoResult
PricesReturned == pc = "returned" /\ prices # NoResult

C2_CallerIdsUnchanged ==
    StocksReturned => offer_ids = fetched_ids

\* C5: when create_prices returns, it holds an entry for code c iff c is a
\* feed code and in S, and the entries are in feed order.
C5_PriceExclusivity ==
    (PricesReturned /\ prices.status = "ok") =>
        /\ \A c \in Codes :
              Contains(PriceCodes, c) <=>
                  (Contains(FeedCodes, c) /\ Contains(fetched_ids, c))
        /\ PriceCodes = SelectSeq(FeedCodes, LAMBDA c : Contains(fetched_ids, c))

\* a returned call with an entry, a code of S absent from the feed and a feed
\* code absent from S
C5_Witness ==
    /\ PricesReturned /\ prices.status = "ok"
    /\ Len(prices.value) = 1
    /\ \E i \in 1..Len(fetched_ids) : ~Contains(FeedCodes, fetched_ids[i])
    /\ \E i \in 1..Len(FeedCodes) : ~Contains(fetched_ids, FeedCodes[i])

\* the price text has no digit before its first "."
NoDigitBeforeDot(s) ==
    \A i \in 1..Len(s) : IsDigit(s[i]) => \E j \in 1..(i - 1) : s[j] = "."

\* C8: when a matched feed row's price text has no digit before its first ".",
\* create_prices ends in the format error (Python: ValueError) and returns no
\* entry.
C8_EmptyPriceIsError ==
    (/\ PricesReturned
     /\ \E i \in 1..Len(watch_remnants) :
           /\ Contains(fetched_ids, FeedCodes[i])
           /\ watch_remnants[i].Tsena.tag = "str"
           /\ NoDigitBeforeDot(watch_remnants[i].Tsena.s))
    => (prices.status = "ValueError" /\ prices.value = <<>>)

\* An integer literal as int() reads it: blanks around an optionally signed
\* run of digits in which single underscores may separate digits.
IsIntegerLiteral(s) ==
    \E a \in 1..Len(s) : \E b \in a..Len(s) :
        /\ \A i \in 1..Len(s) : (i < a \/ i > b) => s[i] = " "
        /\ LET d == IF s[a] \in {"+", "-"} THEN a + 1 ELSE a
           IN  /\ d <= b
               /\ IsDigit(s[d])
               /\ IsDigit(s[b])
               /\ \A i \in d..b :
                     \/ IsDigit(s[i])
                     \/ (s[i] = "_" /\ IsDigit(s[i - 1]) /\ IsDigit(s[i + 1]))

RECURSIVE Pow10(_)
Pow10(k) == IF k = 0 THEN 1 ELSE 10 * Pow10(k - 1)

RECURSIVE SumOver(_, _)
SumOver(S, f) ==
    IF S = {} THEN 0
    ELSE LET x == CHOOSE y \in S : TRUE IN f[x] + SumOver(S \ {x}, f)

\* the base-10 value of an integer literal: each digit weighs 10 to the number
\* of digits after it
LiteralValue(s) ==
    LET D == {i \in 1..Len(s) : IsDigit(s[i])}
        w == [i \in D |->
                 DigitVal(s[i]) * Pow10(Cardinality({j \in D : j > i}))]
        mag == SumOver(D, w)
    IN  IF \E i \in 1..Len(s) : s[i] = "-" THEN -mag ELSE mag

\* the quantity business rule
ExpectedStock(text) ==
    IF text = <<">", "1", "0">> THEN [status |-> "ok", value |-> 100]
    ELSE IF text = <<"1">> THEN [status |-> "ok", value |-> 0]
    ELSE IF IsIntegerLiteral(text) THEN [status |-> "ok", value |-> LiteralValue(text)]
    ELSE [status |-> "ValueError", value |-> 0]

\* row i of the feed is matched: its code is still in the working list when
\* the loop reaches it
Matched(i) ==
    Count(fetched_ids, FeedCodes[i]) >
        Cardinality({j \in 1..(i - 1) : FeedCodes[j] = FeedCodes[i]})

MatchedRows ==
    SelectSeq([i \in 1..Len(watch_remnants) |-> i], LAMBDA i : Matched(i))

QtyText(i) == PyStr(watch_remnants[i].Kolichestvo)

\* C9: the count emitted for a matched row is 100 for ">10", 0 for "1", the
\* base-10 value for any other integer literal; a matched row whose quantity
\* is not an integer literal makes create_stocks end in the format error
\* (Python: ValueError) with no entry returned.
C9_QuantityRule ==
    StocksReturned =>
        IF \E k \in 1..Len(MatchedRows) :
               ExpectedStock(QtyText(MatchedRows[k])).status # "ok"
        THEN stocks.status = "ValueError" /\ stocks.value = <<>>
        ELSE /\ stocks.status = "ok"
             /\ Len(stocks.value) >= Len(MatchedRows)
             /\ \A k \in 1..Len(MatchedRows) :
                   /\ StockCode(stocks.value[k]) = FeedCodes[MatchedRows[k]]
                   /\ StockCount(stocks.value[k]) =
                          ExpectedStock(QtyText(MatchedRows[k])).value

\* a returned call that emitted 100 for ">10" and 0 for "1"
C9_Witness ==
    /\ StocksReturned /\ stocks.status = "ok"
    /\ Len(MatchedRows) = 2
    /\ QtyText(1) = <<">", "1", "0">> /\ StockCount(stocks.value[1]) = 100
    /\ QtyText(2) = <<"1">> /\ StockCount(stocks.value[2]) = 0

(***************************************************************************)
(* SpecDivide: one call of list(divide(lst, n)).                           *)
(***************************************************************************)
Items == {"a", "b"}

DivideInit ==
    /\ lst \in SeqsUpTo(Items, MaxLst)
    /\ n \in (-MaxChunk)..MaxChunk
    /\ pc = "divide"
    /\ chunks = NoResult
    /\ prog = "seller"
    /\ campaign = "seller"
    /\ remote = <<>>
    /\ download = <<>>
    /\ watch_remnants = <<>>
    /\ offer_ids = <<>>
    /\ fetched_ids = <<>>
    /\ page = <<>>
    /\ product_list = <<>>
    /\ stocks = NoResult
    /\ prices = NoResult
    /\ calls = <<>>
    /\ reports = <<>>
    /\ unawaited = 0

\* chunks = list(divide(lst, n))
Divide ==
    /\ pc = "divide"
    /\ chunks' = divide(lst, n)
    /\ pc' = "returned"
    /\ UNCHANGED <<prog, campaign, remote, download, watch_remnants, offer_ids,
                   fetched_ids, page, product_list, stocks, prices, lst, n,
                   calls, reports, unawaited>>

DivideNext == Divide

SpecDivide == DivideInit /\ [][DivideNext]_vars

RECURSIVE Flatten(_)
Flatten(ss) == IF ss = <<>> THEN <<>> ELSE Head(ss) \o Flatten(Tail(ss))

\* C6: for a positive chunk size n, divide yields chunks in order, each of
\* length at most n, all but the last of length exactly n, none empty, whose
\* concatenation is the input; for the empty list it yields no chunk.
C6_Partition ==
    (pc = "returned" /\ n > 0) =>
        /\ chunks.status = "ok"
        /\ \A c \in 1..Len(chunks.value) :
              /\ Len(chunks.value[c]) <= n
              /\ Len(chunks.value[c]) > 0
              /\ c < Len(chunks.value) => Len(chunks.value[c]) = n
        /\ Flatten(chunks.value) = lst
        /\ lst = <<>> => chunks.value = <<>>

\* a returned call with several chunks, the last one shorter
C6_Witness ==
    /\ pc = "returned" /\ chunks.status = "ok"
    /\ n = 2
    /\ Len(chunks.value) = 2
    /\ Len(chunks.value[2]) = 1

\* C7: for n = 0 or n < 0, divide ends in the InvalidArgument error.
C7_NonPositiveChunkFails ==
    (pc = "returned" /\ chunks # NoResult /\ n <= 0) =>
        chunks.status = "InvalidArgument"

(***************************************************************************)
(* Spec: one run of seller.main or of market.main.  The channels and the   *)
(* supplier site are external: a listing, download or update call either   *)
(* answers or raises.                                                      *)
(***************************************************************************)
Exceptions == {"ReadTimeout", "ConnectionError", "HTTPError"}

\* offer codes registered on the channels in a run; a listing is taken as the
\* channel returns it, the scripts do not assume its entries are distinct
RunCodes == {<<"1">>, <<"1", "2">>}

RunFeeds ==
    { <<>>,
      <<Row(Text(<<"1">>), Text(<<">", "1", "0">>), DefaultPrice)>>,
      <<Row(Num(12), Text(<<">", "1", "0">>), DefaultPrice),
        Row(Text(<<"1">>), Text(<<"1">>), Text(<<"1", "2", ".", "5">>))>>,
      <<Row(Text(<<"1">>), Text(<<"a">>), DefaultPrice)>>,
      <<Row(Text(<<"2">>), Num(7), DefaultPrice)>> }

Min(a, b) == IF a < b THEN a ELSE b

Init ==
    /\ prog \in {"seller", "market"}
    /\ remote \in [IF prog = "seller" THEN {"seller"} ELSE {"FBS", "DBS"}
                      -> SeqsUpTo(RunCodes, MaxCatalog)]
    /\ download \in RunFeeds
    /\ pc = IF prog = "seller" THEN "get_offer_ids" ELSE "download_stock"
    /\ campaign = IF prog = "seller" THEN "seller" ELSE "FBS"
    /\ watch_remnants = <<>>
    /\ offer_ids = <<>>
    /\ fetched_ids = <<>>
    /\ page = 0
    /\ product_list = <<>>
    /\ stocks = NoResult
    /\ prices = NoResult
    /\ lst = <<>>
    /\ n = 1
    /\ chunks = <<>>
    /\ calls = <<>>
    /\ reports = <<>>
    /\ unawaited = 0

\* an external call as recorded in the history
Call(fn, ok, payload) ==
    [fn |-> fn, campaign |-> campaign, ok |-> ok, payload |-> payload]

\* what main's except clauses print for an exception
Message(kind) ==
    IF kind = "ReadTimeout" THEN "timeout"
    ELSE IF kind = "ConnectionError" THEN "connection"
    ELSE "ERROR_2"

\* an except clause that reports and lets the failed statement run again
Except_retry(kind) ==
    /\ reports' = Append(reports, Message(kind))
    /\ UNCHANGED pc

\* main's try/except: the exception leaves the try block, one message is
\* printed and main returns
Except(kind) ==
    /\ reports' = Append(reports, Message(kind))
    /\ pc' = "done"

\* the "result" of seller.get_product_list(last_id): the channel serves its
\* listing in pages of at most the request's limit and reports the total
seller_get_product_list(last_id) ==
    LET cat == remote[campaign]
        cnt == Min(SELLER_LIST_LIMIT, Len(cat) - last_id)
    IN  [items |-> [k \in 1..cnt |-> [offer_id |-> cat[last_id + k]]],
         total |-> Len(cat),
         last_id |-> last_id + cnt]

\* the "result" of market.get_product_list(page): nextPageToken is absent
\* (0) on the last page
market_get_product_list(token) ==
    LET cat == remote[campaign]
        cnt == Min(MARKET_LIST_LIMIT, Len(cat) - token)
    IN  [offerMappingEntries |->
             [k \in 1..cnt |-> [offer |-> [shopSku |-> cat[token + k]]]],
         paging |-> [nextPageToken |->
                        IF token + cnt < Len(cat) THEN token + cnt ELSE 0]]

\* seller.get_offer_ids: one iteration of the while loop, and on its break the
\* extraction of the offer ids
SellerMain_GetOfferIds ==
    /\ prog = "seller"
    /\ pc = "get_offer_ids"
    /\ \/ LET some_prod == seller_get_product_list(page)
              pl == product_list \o some_prod.items
          IN  /\ calls' = Append(calls, Call("get_product_list", TRUE, page))
              /\ product_list' = pl
              /\ page' = some_prod.last_id
              /\ IF some_prod.total = Len(pl)
                 THEN /\ offer_ids' = [k \in 1..Len(pl) |-> pl[k].offer_id]
                      /\ fetched_ids' = [k \in 1..Len(pl) |-> pl[k].offer_id]
                      /\ pc' = "download_stock"
                 ELSE UNCHANGED <<offer_ids, fetched_ids, pc>>
              /\ UNCHANGED reports
       \/ \E kind \in Exceptions :
              /\ calls' = Append(calls, Call("get_product_list", FALSE, page))
              /\ Except(kind)
              /\ UNCHANGED <<product_list, page, offer_ids, fetched_ids>>
    /\ UNCHANGED <<prog, campaign, remote, download, watch_remnants, stocks,
                   prices, lst, n, chunks, unawaited>>

\* seller.main: watch_remnants = download_stock(), inside the try block
SellerMain_DownloadStock ==
    /\ prog = "seller"
    /\ pc = "download_stock"
    /\ \/ /\ calls' = Append(calls, Call("download_stock", TRUE, <<>>))
          /\ watch_remnants' = download
          /\ pc' = "create_stocks"
          /\ UNCHANGED reports
       \/ \E kind \in Exceptions :
              /\ calls' = Append(calls, Call("download_stock", FALSE, <<>>))
              /\ Except(kind)
              /\ UNCHANGED watch_remnants
    /\ UNCHANGED <<prog, campaign, remote, download, offer_ids, fetched_ids,
                   page, product_list, stocks, prices, lst, n, chunks, unawaited>>

\* seller.main: stocks = create_stocks(watch_remnants, offer_ids) and
\* list(divide(stocks, 100))
SellerMain_CreateStocks ==
    /\ prog = "seller"
    /\ pc = "create_stocks"
    /\ LET r == seller_create_stocks(watch_remnants, offer_ids)
           d == divide(r.value, SELLER_STOCKS_CHUNK)
       IN  /\ stocks' = [status |-> r.status, value |-> r.value]
           /\ offer_ids' = r.offer_ids
           /\ IF r.status # "ok" THEN Except(r.status) /\ UNCHANGED chunks
              ELSE IF d.status # "ok" THEN Except(d.status) /\ UNCHANGED chunks
              ELSE /\ chunks' = d.value
                   /\ pc' = IF d.value = <<>> THEN "create_prices" ELSE "update_stocks"
                   /\ UNCHANGED reports
    /\ UNCHANGED <<prog, campaign, remote, download, watch_remnants, fetched_ids,
                   page, product_list, prices, lst, n, calls, unawaited>>

\* seller.main: update_stocks(some_stock, ...) for the next chunk
SellerMain_UpdateStocks ==
    /\ prog = "seller"
    /\ pc = "update_stocks"
    /\ \/ /\ calls' = Append(calls, Call("update_stocks", TRUE, Head(chunks)))
          /\ chunks' = Tail(chunks)
          /\ pc' = IF Tail(chunks) = <<>> THEN "create_prices" ELSE "update_stocks"
          /\ UNCHANGED reports
       \/ \E kind \in Exceptions :
              /\ calls' = Append(calls, Call("update_stocks", FALSE, Head(chunks)))
              /\ Except(kind)
              /\ UNCHANGED chunks
    /\ UNCHANGED <<prog, campaign, remote, download, watch_remnants, offer_ids,
                   fetched_ids, page, product_list, stocks, prices, lst, n,
                   unawaited>>

\* seller.main: prices = create_prices(watch_remnants, offer_ids) and
\* list(divide(prices, 900))
SellerMain_CreatePrices ==
    /\ prog = "seller"
    /\ pc = "create_prices"
    /\ LET r == seller_create_prices(watch_remnants, offer_ids)
           d == divide(r.value, SELLER_PRICES_CHUNK)
       IN  /\ prices' = r
           /\ IF r.status # "ok" THEN Except(r.status) /\ UNCHANGED chunks
              ELSE IF d.status # "ok" THEN Except(d.status) /\ UNCHANGED chunks
              ELSE /\ chunks' = d.value
                   /\ pc' = IF d.value = <<>> THEN "done" ELSE "update_price"
                   /\ UNCHANGED reports
    /\ UNCHANGED <<prog, campaign, remote, download, watch_remnants, offer_ids,
                   fetched_ids, page, product_list, stocks, lst, n, calls,
                   unawaited>>

\* seller.main: update_price(some_price, ...) for the next chunk
SellerMain_UpdatePrice ==
    /\ prog = "seller"
    /\ pc = "update_price"
    /\ \/ /\ calls' = Append(calls, Call("update_price", TRUE, Head(chunks)))
          /\ chunks' = Tail(chunks)
          /\ pc' = IF Tail(chunks) = <<>> THEN "done" ELSE "update_price"
          /\ UNCHANGED reports
       \/ \E kind \in Exceptions :
              /\ calls' = Append(calls, Call("update_price", FALSE, Head(chunks)))
              /\ Except(kind)
              /\ UNCHANGED chunks
    /\ UNCHANGED <<prog, campaign, remote, download, watch_remnants, offer_ids,
                   fetched_ids, page, product_list, stocks, prices, lst, n,
                   unawaited>>

\* market.main: watch_remnants = download_stock(), before the try block: an
\* exception here is not caught and ends the process
MarketMain_DownloadStock ==
    /\ prog = "market"
    /\ pc = "download_stock"
    /\ \/ /\ calls' = Append(calls, Call("download_stock", TRUE, <<>>))
          /\ watch_remnants' = download
          /\ pc' = "get_offer_ids"
       \/ /\ calls' = Append(calls, Call("download_stock", FALSE, <<>>))
          /\ pc' = "crashed"
          /\ UNCHANGED watch_remnants
    /\ UNCHANGED <<prog, campaign, remote, download, offer_ids, fetched_ids,
                   page, product_list, stocks, prices, lst, n, chunks, reports,
                   unawaited>>

\* market.get_offer_ids: one iteration of the while loop, and on its break the
\* extraction of the offer ids
MarketMain_GetOfferIds ==
    /\ prog = "market"
    /\ pc = "get_offer_ids"
    /\ \/ LET some_prod == market_get_product_list(page)
              pl == product_list \o some_prod.offerMappingEntries
          IN  /\ calls' = Append(calls, Call("get_product_list", TRUE, page))
              /\ product_list' = pl
              /\ page' = some_prod.paging.nextPageToken
              /\ IF some_prod.paging.nextPageToken = 0
                 THEN /\ offer_ids' = [k \in 1..Len(pl) |-> pl[k].offer.shopSku]
                      /\ fetched_ids' = [k \in 1..Len(pl) |-> pl[k].offer.shopSku]
                      /\ pc' = "create_stocks"
                 ELSE UNCHANGED <<offer_ids, fetched_ids, pc>>
              /\ UNCHANGED reports
       \/ \E kind \in Exceptions :
              /\ calls' = Append(calls, Call("get_product_list", FALSE, page))
              /\ Except(kind)
              /\ UNCHANGED <<product_list, page, offer_ids, fetched_ids>>
    /\ UNCHANGED <<prog, campaign, remote, download, watch_remnants, stocks,
                   prices, lst, n, chunks, unawaited>>

warehouse_id(c) == IF c = "FBS" THEN "warehouse_fbs_id" ELSE "warehouse_dbs_id"

\* market.main: stocks = create_stocks(watch_remnants, offer_ids, warehouse)
\* and list(divide(stocks, 2000))
MarketMain_CreateStocks ==
    /\ prog = "market"
    /\ pc = "create_stocks"
    /\ LET r == market_create_stocks(watch_remnants, offer_ids, warehouse_id(campaign))
           d == divide(r.value, MARKET_STOCKS_CHUNK)
       IN  /\ stocks' = [status |-> r.status, value |-> r.value]
           /\ offer_ids' = r.offer_ids
           /\ IF r.status # "ok" THEN Except(r.status) /\ UNCHANGED chunks
              ELSE IF d.status # "ok" THEN Except(d.status) /\ UNCHANGED chunks
              ELSE /\ chunks' = d.value
                   /\ pc' = IF d.value = <<>> THEN "upload_prices" ELSE "update_stocks"
                   /\ UNCHANGED reports
    /\ UNCHANGED <<prog, campaign, remote, download, watch_remnants, fetched_ids,
                   page, product_list, prices, lst, n, calls, unawaited>>

\* market.main: update_stocks(some_stock, ...) for the next chunk
MarketMain_UpdateStocks ==
    /\ prog = "market"
    /\ pc = "update_stocks"
    /\ \/ /\ calls' = Append(calls, Call("update_stocks", TRUE, Head(chunks)))
          /\ chunks' = Tail(chunks)
          /\ pc' = IF Tail(chunks) = <<>> THEN "upload_prices" ELSE "update_stocks"
          /\ UNCHANGED reports
       \/ \E kind \in Exceptions :
              /\ calls' = Append(calls, Call("update_stocks", FALSE, Head(chunks)))
              /\ Except(kind)
              /\ UNCHANGED chunks
    /\ UNCHANGED <<prog, campaign, remote, download, watch_remnants, offer_ids,
                   fetched_ids, page, product_list, stocks, prices, lst, n,
                   unawaited>>

\* market.main: upload_prices(watch_remnants, campaign, market_token).
\* upload_prices is declared "async def" and main does not await the call: it
\* builds a coroutine object, runs none of the body and goes on (to the DBS
\* campaign, or to the end of main)
MarketMain_UploadPrices ==
    /\ prog = "market"
    /\ pc = "upload_prices"
    /\ unawaited' = unawaited + 1
    /\ IF campaign = "FBS"
       THEN /\ campaign' = "DBS"
            /\ pc' = "get_offer_ids"
            /\ page' = 0
            /\ product_list' = <<>>
       ELSE /\ pc' = "done"
            /\ UNCHANGED <<campaign, page, product_list>>
    /\ UNCHANGED <<prog, remote, download, watch_remnants, offer_ids,
                   fetched_ids, stocks, prices, lst, n, chunks, calls, reports>>

Next ==
    \/ SellerMain_GetOfferIds
    \/ SellerMain_DownloadStock
    \/ SellerMain_CreateStocks
    \/ SellerMain_UpdateStocks
    \/ SellerMain_CreatePrices
    \/ SellerMain_UpdatePrice
    \/ MarketMain_DownloadStock
    \/ MarketMain_GetOfferIds
    \/ MarketMain_CreateStocks
    \/ MarketMain_UpdateStocks
    \/ MarketMain_UploadPrices

Spec == Init /\ [][Next]_vars

(***************************************************************************)
(* Properties of the runs (Spec).                                          *)
(***************************************************************************)
\* the payloads of the answered calls of fn on campaign c, in call order
RECURSIVE PayloadsFrom(_, _, _)
PayloadsFrom(i, fn, c) ==
    IF i > Len(calls) THEN <<>>
    ELSE IF calls[i].fn = fn /\ calls[i].campaign = c /\ calls[i].ok
         THEN <<calls[i].payload>> \o PayloadsFrom(i + 1, fn, c)
    ELSE PayloadsFrom(i + 1, fn, c)

Payloads(fn, c) == PayloadsFrom(1, fn, c)

RunCompleted == pc = "done" /\ reports = <<>>

\* C3: in a run of seller.main that completes without error, the price
\* entries submitted through update_price are create_prices(feed, the offer
\* ids fetched at the start of the run).
C3_SellerPricesSubmitted ==
    (prog = "seller" /\ RunCompleted) =>
        Flatten(Payloads("update_price", "seller")) =
            seller_create_prices(watch_remnants, fetched_ids).value

\* market.upload_prices, were its body run: the update_price payloads, in order
market_upload_prices(feed, c) ==
    divide(market_create_prices(feed, remote[c]).value, MARKET_PRICES_CHUNK).value

\* C4: in a run of market.main that completes without error, for FBS and for
\* DBS every price entry of the channel is submitted to update_price, one
\* call per chunk, in order, after the channel's stock chunks.
C4_MarketPricesSubmitted ==
    (prog = "market" /\ RunCompleted) =>
        \A c \in {"FBS", "DBS"} :
            /\ Payloads("update_price", c) = market_upload_prices(watch_remnants, c)
            /\ \A i, j \in 1..Len(calls) :
                  (/\ calls[i].campaign = c /\ calls[i].fn = "update_stocks"
                   /\ calls[j].campaign = c /\ calls[j].fn = "update_price")
                  => i < j

\* the listing and chunk-submission calls
IsChannelCall(c) == c.fn \in {"get_product_list", "update_stocks", "update_price"}

FailedCalls == {i \in 1..Len(calls) : IsChannelCall(calls[i]) /\ ~calls[i].ok}

\* after a failed listing or submission call: it is the last call of the run
\* (not issued again, no later chunk, no later channel), the run has ended and
\* has reported once
AbortedOnFailure ==
    /\ Len(reports) <= 1
    /\ \A i \in FailedCalls :
          /\ i = Len(calls)
          /\ pc = "done"
          /\ Len(reports) = 1
    /\ (\E i \in FailedCalls : calls[i].campaign = "FBS")
          => \A j \in 1..Len(calls) : calls[j].campaign # "DBS"

\* C10: a failed listing or chunk-submission call is not issued again, no
\* later chunk and no later channel is submitted, the calls made before it
\* stay as they were, and the run ends after reporting the failure once.
C10_FailureAborts ==
    [][/\ AbortedOnFailure'
       /\ pc \notin {"done", "crashed"}
       /\ Len(calls') >= Len(calls)
       /\ SubSeq(calls', 1, Len(calls)) = calls]_vars

\* a market run whose second FBS stock chunk failed after the first was
\* submitted
C10_Witness ==
    /\ prog = "market" /\ pc = "done" /\ Len(reports) = 1
    /\ Len(calls) >= 2
    /\ calls[Len(calls)].fn = "update_stocks"
    /\ ~calls[Len(calls)].ok
    /\ calls[Len(calls)].campaign = "FBS"
    /\ calls[Len(calls) - 1].fn = "update_stocks"
    /\ calls[Len(calls) - 1].ok

\* C12: when create_prices returns, it holds exactly one entry for each feed
\* code that is also in S, and never two entries with the same offer code,
\* also when the feed repeats a code.
C12_OnePricePerCode ==
    (PricesReturned /\ prices.status = "ok") =>
        /\ \A c \in Codes :
              (Contains(FeedCodes, c) /\ Contains(fetched_ids, c))
                  => Count(PriceCodes, c) = 1
        /\ NoDup(PriceCodes)

(***************************************************************************)
(* SpecPaging: one call of seller.get_offer_ids or market.get_offer_ids on *)
(* a channel that serves its listing page by page, each page of any size   *)
(* from one offer up to the request's limit (an empty page only when no    *)
(* offer is left).  The loop is sequential code that keeps running, hence  *)
(* the weak fairness of its step.                                          *)
(***************************************************************************)
PageSizes(limit, left) == IF left = 0 THEN {0} ELSE 1..Min(limit, left)

\* the "result" of seller.get_product_list(last_id) when the channel puts cnt
\* offers on the page
seller_list_page(last_id, cnt) ==
    LET cat == remote[campaign]
    IN  [items |-> [k \in 1..cnt |-> [offer_id |-> cat[last_id + k]]],
         total |-> Len(cat),
         last_id |-> last_id + cnt]

\* the "result" of market.get_product_list(page) when the channel puts cnt
\* offers on the page
market_list_page(token, cnt) ==
    LET cat == remote[campaign]
    IN  [offerMappingEntries |->
             [k \in 1..cnt |-> [offer |-> [shopSku |-> cat[token + k]]]],
         paging |-> [nextPageToken |->
                        IF token + cnt < Len(cat) THEN token + cnt ELSE 0]]

\* a break test that compares the total with the size of the page just read
seller_break_on_page_size(some_prod, pl) == some_prod.total = Len(some_prod.items)

\* seller.get_offer_ids: "if total == len(product_list): break"
seller_break(some_prod, pl) == some_prod.total = Len(pl)

\* market.get_offer_ids: "if not page: break"
market_break(token) == token = 0

PagingInit ==
    /\ prog \in {"seller", "market"}
    /\ campaign = IF prog = "seller" THEN "seller" ELSE "FBS"
    /\ remote \in [{campaign} -> SeqsUpTo(Codes, MaxCatalog)]
    /\ pc = "get_offer_ids"
    /\ page = 0
    /\ product_list = <<>>
    /\ offer_ids = <<>>
    /\ fetched_ids = <<>>
    /\ download = <<>>
    /\ watch_remnants = <<>>
    /\ stocks = NoResult
    /\ prices = NoResult
    /\ lst = <<>>
    /\ n = 1
    /\ chunks = <<>>
    /\ calls = <<>>
    /\ reports = <<>>
    /\ unawaited = 0

PagingFrame ==
    UNCHANGED <<prog, campaign, remote, download, watch_remnants, fetched_ids,
                stocks, prices, lst, n, chunks, reports, unawaited>>

\* seller.get_offer_ids: one iteration of the while loop; on break, the
\* extraction of the offer ids and the return.  A failed request raises out
\* of the function.
SellerGetOfferIds ==
    /\ prog = "seller"
    /\ pc = "get_offer_ids"
    /\ \/ \E cnt \in PageSizes(SELLER_LIST_LIMIT, Len(remote[campaign]) - page) :
             LET some_prod == seller_list_page(page, cnt)
                 pl == product_list \o some_prod.items
             IN  /\ calls' = Append(calls,
                        Call("get_product_list", TRUE,
                             [ids |-> [k \in 1..cnt |-> some_prod.items[k].offer_id],
                              total |-> some_prod.total,
                              token |-> some_prod.last_id]))
                 /\ product_list' = pl
                 /\ page' = some_prod.last_id
                 /\ IF seller_break(some_prod, pl)
                    THEN /\ offer_ids' = [k \in 1..Len(pl) |-> pl[k].offer_id]
                         /\ pc' = "returned"
                    ELSE UNCHANGED <<offer_ids, pc>>
       \/ /\ calls' = Append(calls, Call("get_product_list", FALSE, <<>>))
          /\ pc' = "raised"
          /\ UNCHANGED <<product_list, page, offer_ids>>
    /\ PagingFrame

\* market.get_offer_ids: one iteration of the while loop; on break, the
\* extraction of the offer ids and the return
MarketGetOfferIds ==
    /\ prog = "market"
    /\ pc = "get_offer_ids"
    /\ \/ \E cnt \in PageSizes(MARKET_LIST_LIMIT, Len(remote[campaign]) - page) :
             LET some_prod == market_list_page(page, cnt)
                 pl == product_list \o some_prod.offerMappingEntries
             IN  /\ calls' = Append(calls,
                        Call("get_product_list", TRUE,
                             [ids |-> [k \in 1..cnt |->
                                          some_prod.offerMappingEntries[k].offer.shopSku],
                              total |-> Len(remote[campaign]),
                              token |-> some_prod.paging.nextPageToken]))
                 /\ product_list' = pl
                 /\ page' = some_prod.paging.nextPageToken
                 /\ IF market_break(some_prod.paging.nextPageToken)
                    THEN /\ offer_ids' = [k \in 1..Len(pl) |-> pl[k].offer.shopSku]
                         /\ pc' = "returned"
                    ELSE UNCHANGED <<offer_ids, pc>>
       \/ /\ calls' = Append(calls, Call("get_product_list", FALSE, <<>>))
          /\ pc' = "raised"
          /\ UNCHANGED <<product_list, page, offer_ids>>
    /\ PagingFrame

PagingNext == SellerGetOfferIds \/ MarketGetOfferIds

SpecPaging == PagingInit /\ [][PagingNext]_vars /\ WF_vars(PagingNext)

\* the identifiers of the pages fetched by the first i requests, concatenated
\* in request order
RECURSIVE FetchedUpTo(_)
FetchedUpTo(i) ==
    IF i = 0 THEN <<>>
    ELSE FetchedUpTo(i - 1) \o (IF calls[i].ok THEN calls[i].payload.ids ELSE <<>>)

\* the channel's completion signal on the answer to request i: for the seller
\* channel the reported total equals the count accumulated so far, for the
\* market channel the page carries no next-page token
CompletionSignal(i) ==
    /\ calls[i].ok
    /\ IF prog = "seller"
       THEN calls[i].payload.total = Len(FetchedUpTo(i))
       ELSE calls[i].payload.token = 0

PagingSafe ==
    /\ \A i \in 1..Len(calls) :
          CompletionSignal(i) => (i = Len(calls) /\ pc = "returned")
    /\ pc = "returned" =>
          /\ Len(calls) >= 1
          /\ CompletionSignal(Len(calls))
          /\ offer_ids = FetchedUpTo(Len(calls))
          /\ offer_ids = remote[campaign]

\* C11: get_offer_ids stops requesting pages as soon as the channel signals
\* completion (seller: accumulated count reaches the reported total; market:
\* no next-page token), requests no page after the signal, always terminates
\* on a finite catalog served page by page, and returns the identifiers of
\* all fetched pages concatenated in request order.
C11_PaginationTerminates ==
    /\ [](PagingSafe)
    /\ <>(pc \in {"returned", "raised"})

\* a returned call that needed several pages, the pages of different sizes
C11_Witness ==
    /\ pc = "returned"
    /\ Len(calls) = 2
    /\ Len(calls[1].payload.ids) = 1
    /\ Len(calls[2].payload.ids) = 2
    /\ offer_ids = remote[campaign]

====
